---- MODULE Spec2Model ----
(***************************************************************************)
(* Model of circular2's Buffer (src/src/lib.rs): a Vec<u8> backing store   *)
(* with two cursors, start and end, and the operations grow, fill,         *)
(* consume, reset, shift, delete_slice, insert_slice, replace_slice and    *)
(* the io::Read / io::Write adapters.                                      *)
(*                                                                         *)
(* A Vec has a length (the addressable bytes) and a capacity (the          *)
(* allocation); indexing and copy_within are checked against the length,   *)
(* while Buffer::capacity and Buffer::available_space report the Vec's     *)
(* capacity.  Both are kept in the model.  A panic ends the program: the   *)
(* call is recorded with ret.kind = "panic" and nothing runs afterwards.   *)
(* Arguments are small naturals; usize wrap-around is out of the bounds.   *)
(***************************************************************************)
EXTENDS Integers, Sequences, FiniteSets, TLC

VARIABLES
    self,              \* the Buffer: [buf, cap, start, end]
    debug_assertions,  \* build profile: TRUE when debug_assert! is compiled in
    op,                \* the last call: [name, data, offset, len, count]
    old,               \* self before the last call
    ret,               \* result of the last call: [kind, val, out]
    written,           \* SpecFifo: all bytes write has accepted, in order
    delivered          \* SpecFifo: all bytes read has delivered, in order

vars == <<self, debug_assertions, op, old, ret, written, delivered>>

\* ---------------------------------------------------------------- bounds
\* largest capacity / slice length at construction and largest grow target
MaxSize == 3
\* longest data argument of insert_slice, replace_slice, write; longest
\* destination of read
MaxData == 2
\* largest offset, len and count argument
MaxArg == 2
\* SpecFifo: most bytes written over a run
MaxHistory == 4

\* The buffer only moves bytes and never looks at their values; 0 is the
\* value Vec fills with, 1 stands for any other byte.
Byte == {0, 1}
Slices(n) == UNION {[1..k -> Byte] : k \in 0..n}

\* smallest non-empty allocation Vec<u8> makes when it has to reallocate
MinNonZeroCap == 8

Max(a, b) == IF a >= b THEN a ELSE b
Min(a, b) == IF a <= b THEN a ELSE b
Zeroes(n) == [i \in 1..n |-> 0]

\* ---------------------------------------------------------------- results
Ret(kind, val) == [kind |-> kind, val |-> val, out |-> <<>>]
Unit == Ret("unit", 0)
None == Ret("None", 0)
Some(n) == Ret("Some", n)
Usize(n) == Ret("usize", n)
Bool(x) == Ret(IF x THEN "true" ELSE "false", 0)
Panic == Ret("panic", 0)
IoOk(n, bytes) == [kind |-> "Ok", val |-> n, out |-> bytes]
\* outcome of a call: the buffer as the call leaves it, and what it returns
Outcome(b, r) == [b |-> b, ret |-> r]

\* ---------------------------------------------------------------- slices
\* s[from..to] of a Rust slice (0-based, half open)
Range(s, from, to) == SubSeq(s, from + 1, to)
\* s[from..to] is in bounds
RangeOk(s, from, to) == from <= to /\ to <= Len(s)

\* slice::copy_within(from..to, dest) panics unless both ranges are inside
copy_within_ok(s, from, to, dest) ==
    /\ from <= to
    /\ to <= Len(s)
    /\ dest + (to - from) <= Len(s)

\* copies forward byte by byte: wrong when dest > from and the ranges overlap
RECURSIVE copy_forward(_, _, _, _)
copy_forward(s, from, to, dest) ==
    IF from >= to THEN s
    ELSE copy_forward([s EXCEPT ![dest + 1] = s[from + 1]], from + 1, to, dest + 1)

\* copies backward byte by byte: wrong when dest < from and the ranges overlap
RECURSIVE copy_backward(_, _, _, _)
copy_backward(s, from, to, dest) ==
    IF from >= to THEN s
    ELSE copy_backward([s EXCEPT ![dest + (to - from)] = s[to]], from, to - 1, dest)

\* slice::copy_within(from..to, dest): memmove
copy_within(s, from, to, dest) ==
    [i \in 1..Len(s) |->
        IF i - 1 >= dest /\ i - 1 < dest + (to - from)
        THEN s[from + (i - 1 - dest) + 1]
        ELSE s[i]]

\* s[at..at + data.len()].copy_from_slice(data)
copy_from_slice(s, at, dat) ==
    [i \in 1..Len(s) |->
        IF i - 1 >= at /\ i - 1 < at + Len(dat) THEN dat[i - at] ELSE s[i]]

\* ---------------------------------------------------------------- Buffer
with_capacity(capacity) ==
    [buf |-> Zeroes(capacity), cap |-> capacity, start |-> 0, end |-> 0]

from_slice(dat) ==
    [buf |-> dat, cap |-> Len(dat), start |-> 0, end |-> Len(dat)]

available_data(b) == b.end - b.start
available_space(b) == b.cap - b.end
capacity(b) == b.cap
empty(b) == b.end = b.start
position(b) == b.start

\* Vec::resize past the capacity reallocates to the larger of twice the old
\* capacity, the requested length and the minimum non-empty allocation
resize_capacity(cap, new_size) ==
    IF new_size <= cap THEN cap
    ELSE Max(Max(2 * cap, new_size), MinNonZeroCap)

grow(b, new_size) ==
    IF new_size <= b.cap
    THEN Outcome(b, Bool(FALSE))
    ELSE Outcome([b EXCEPT !.buf = b.buf \o Zeroes(new_size - Len(b.buf)),
                           !.cap = resize_capacity(b.cap, new_size)],
                 Bool(TRUE))

consume_rejects_mut(b, count) == count >= available_data(b)
consume_rejects(b, count) == count > available_data(b)

consume(b, count) ==
    IF consume_rejects(b, count)
    THEN Outcome(b, Panic)
    ELSE Outcome([b EXCEPT !.start = b.start + count], Usize(count))

consume_noshift(b, count) == consume(b, count)

fill_rejects_mut(b, count) == count > available_space(b) + 1
fill_rejects(b, count) == count > available_space(b)

fill(b, count) ==
    IF fill_rejects(b, count)
    THEN Outcome(b, Panic)
    ELSE Outcome([b EXCEPT !.end = b.end + count], Usize(count))

reset(b) == Outcome([b EXCEPT !.start = 0, !.end = 0], Unit)

\* &self.buf[self.start..self.end]
data_ok(b) == RangeOk(b.buf, b.start, b.end)
data(b) == Range(b.buf, b.start, b.end)
\* &mut self.buf[self.end..]
space_ok(b) == b.end <= Len(b.buf)
space(b) == Range(b.buf, b.end, Len(b.buf))

\* shift() that moves the bytes but leaves the cursors where they were
shift_mut(b) ==
    IF b.start = 0 THEN Outcome(b, Unit)
    ELSE IF ~copy_within_ok(b.buf, b.start, b.end, 0) THEN Outcome(b, Panic)
    ELSE Outcome([b EXCEPT !.buf = copy_within(b.buf, b.start, b.end, 0)], Unit)

shift(b) ==
    IF b.start = 0 THEN Outcome(b, Unit)
    ELSE IF ~copy_within_ok(b.buf, b.start, b.end, 0) THEN Outcome(b, Panic)
    ELSE Outcome([b EXCEPT !.buf = copy_within(b.buf, b.start, b.end, 0),
                           !.start = 0,
                           !.end = b.end - b.start],
                 Unit)

\* the bounds check of delete_slice, off by one the other way
delete_rejects_mut(b, offset, len) == offset + len > available_data(b)
delete_rejects(b, offset, len) == offset + len >= available_data(b)

delete_slice(b, offset, len) ==
    IF delete_rejects(b, offset, len) THEN Outcome(b, None)
    ELSE LET copy_from == b.start + offset + len
             copy_to == b.start + offset
         IN  IF ~copy_within_ok(b.buf, copy_from, b.end, copy_to)
             THEN Outcome(b, Panic)
             ELSE LET nb == [b EXCEPT !.buf = copy_within(b.buf, copy_from, b.end, copy_to),
                                      !.end = b.end - len]
                  IN  Outcome(nb, Some(available_data(nb)))

\* "could not possibly fit new data"
insert_cannot_fit(b, dat) == available_space(b) + Len(dat) > b.cap
\* "cannot fit new data as is, but can if we shift()"
insert_needs_shift(b, dat) == b.start + available_data(b) + Len(dat) > b.cap
\* the condition of the debug_assert! after the shift
insert_debug_assert(b, dat) == b.start + available_data(b) + Len(dat) > b.cap

\* lines 163-174: open the gap, copy the new bytes in, advance end
insert_copy(b, dat, offset) ==
    LET remain_start == b.start + offset
        remain_end == b.end
        remain_copy_to == remain_start + Len(dat)
        insert_at == b.start + offset
    IN  IF ~copy_within_ok(b.buf, remain_start, remain_end, remain_copy_to)
        THEN Outcome(b, Panic)
        ELSE LET moved == copy_within(b.buf, remain_start, remain_end, remain_copy_to)
             IN  IF ~RangeOk(moved, insert_at, insert_at + Len(dat))
                 THEN Outcome([b EXCEPT !.buf = moved], Panic)
                 ELSE LET nb == [b EXCEPT !.buf = copy_from_slice(moved, insert_at, dat),
                                          !.end = b.end + Len(dat)]
                      IN  Outcome(nb, Some(available_data(nb)))

insert_slice(b, dat, offset) ==
    IF offset >= available_data(b) THEN Outcome(b, None)
    ELSE IF insert_cannot_fit(b, dat) THEN Outcome(b, None)
    ELSE IF insert_needs_shift(b, dat)
         THEN LET s == shift(b)
              IN  IF s.ret.kind = "panic" THEN s
                  ELSE IF debug_assertions /\ ~insert_debug_assert(s.b, dat)
                       THEN Outcome(s.b, Panic)
                       ELSE insert_copy(s.b, dat, offset)
         ELSE insert_copy(b, dat, offset)

\* the Less branch validating the replaced window instead of the new bytes
replace_less_rejects_mut(b, dat, offset, len) == b.start + offset + len > b.end
\* Ordering::Less: if self.start + start + data.len() > self.end
replace_less_rejects(b, dat, offset, len) == b.start + offset + Len(dat) > b.end

\* the match of replace_slice: the buffer after the delete or insert, the
\* part of data left to copy, and "unit" when the final copy is to run
replace_match(b, dat, offset, len) ==
    IF len > Len(dat) THEN
        IF b.start + offset + len > b.end
        THEN [b |-> b, ret |-> None, data |-> dat]
        ELSE LET delete_from == offset + Len(dat)
                 delete_len == len - Len(dat)
                 d == delete_slice(b, delete_from, delete_len)
             IN  [b |-> d.b,
                  ret |-> IF d.ret.kind = "Some" THEN Unit ELSE Panic,
                  data |-> dat]
    ELSE IF len < Len(dat) THEN
        IF replace_less_rejects(b, dat, offset, len)
        THEN [b |-> b, ret |-> None, data |-> dat]
        ELSE LET fits == SubSeq(dat, 1, len)
                 extra == SubSeq(dat, len + 1, Len(dat))
                 insert_at == offset + len
                 i == insert_slice(b, extra, insert_at)
             IN  [b |-> i.b,
                  ret |-> IF i.ret.kind = "Some" THEN Unit ELSE Panic,
                  data |-> fits]
    ELSE
        IF b.start + offset + len > b.end
        THEN [b |-> b, ret |-> None, data |-> dat]
        ELSE [b |-> b, ret |-> Unit, data |-> dat]

\* the final copy addressed from the storage origin instead of from start
replace_copy_start_mut(b, offset) == offset
\* let copy_start = self.start + start
replace_copy_start(b, offset) == b.start + offset

replace_slice(b, dat, offset, len) ==
    LET m == replace_match(b, dat, offset, len)
    IN  IF m.ret.kind # "unit" THEN Outcome(m.b, m.ret)
        ELSE LET copy_start == replace_copy_start(m.b, offset)
                 copy_end == copy_start + Len(m.data)
             IN  IF ~RangeOk(m.b.buf, copy_start, copy_end)
                 THEN Outcome(m.b, Panic)
                 ELSE LET nb == [m.b EXCEPT !.buf = copy_from_slice(m.b.buf, copy_start, m.data)]
                      IN  Outcome(nb, Some(available_data(nb)))

\* read that advances start by the length of the destination
read_overrun(b, dst_len) ==
    IF ~data_ok(b) THEN Outcome(b, Panic)
    ELSE LET read_from == data(b)
             read_len == Min(Len(read_from), dst_len)
         IN  Outcome([b EXCEPT !.start = b.start + dst_len],
                     IoOk(read_len, SubSeq(read_from, 1, read_len)))

\* impl Read: dst_len is the length of the destination
read(b, dst_len) ==
    IF ~data_ok(b) THEN Outcome(b, Panic)
    ELSE LET read_from == data(b)
             read_len == Min(Len(read_from), dst_len)
         IN  Outcome([b EXCEPT !.start = b.start + read_len],
                     IoOk(read_len, SubSeq(read_from, 1, read_len)))

\* a write that compacts first to make room
write_shift(b, src) ==
    IF ~space_ok(b) THEN Outcome(b, Panic)
    ELSE LET s == shift(b).b
             write_len == Min(Len(space(s)), Len(src))
         IN  Outcome([s EXCEPT !.buf = copy_from_slice(s.buf, s.end, SubSeq(src, 1, write_len)),
                               !.end = s.end + write_len],
                     IoOk(write_len, <<>>))

\* impl Write
write(b, src) ==
    IF ~space_ok(b) THEN Outcome(b, Panic)
    ELSE LET write_len == Min(Len(space(b)), Len(src))
         IN  Outcome([b EXCEPT !.buf = copy_from_slice(b.buf, b.end, SubSeq(src, 1, write_len)),
                               !.end = b.end + write_len],
                     IoOk(write_len, <<>>))

\* ---------------------------------------------------------------- calls
Op(name, d, offset, len, count) ==
    [name |-> name, data |-> d, offset |-> offset, len |-> len, count |-> count]

Idle == Op("idle", <<>>, 0, 0, 0)

\* one call on a buffer whose owner holds no pending result: the whole method
\* runs, and the call, the buffer before it and its result are recorded
Call(o, res) ==
    /\ op = Idle
    /\ op' = o
    /\ old' = self
    /\ self' = res.b
    /\ ret' = res.ret
    /\ UNCHANGED <<debug_assertions, written, delivered>>

\* the owner takes the result of the last call and drops the record of it;
\* the buffer is untouched.  After a panic there is no owner left to go on.
Return ==
    /\ op # Idle
    /\ ret.kind # "panic"
    /\ op' = Idle
    /\ old' = self
    /\ ret' = Ret("idle", 0)
    /\ UNCHANGED <<self, debug_assertions, written, delivered>>

New(o, b) ==
    /\ self = b
    /\ old = b
    /\ op = o
    /\ ret = Ret("new", 0)
    /\ written = <<>>
    /\ delivered = <<>>

Init ==
    /\ debug_assertions \in BOOLEAN
    /\ \/ \E c \in 0..MaxSize : New(Op("with_capacity", <<>>, 0, 0, c), with_capacity(c))
       \/ \E d \in Slices(MaxSize) : New(Op("from_slice", d, 0, 0, 0), from_slice(d))

CallGrow == \E n \in 0..MaxSize + 1 : Call(Op("grow", <<>>, 0, 0, n), grow(self, n))
CallFill == \E n \in 0..MaxArg : Call(Op("fill", <<>>, 0, 0, n), fill(self, n))
CallConsume == \E n \in 0..MaxArg : Call(Op("consume", <<>>, 0, 0, n), consume(self, n))
CallConsumeNoshift ==
    \E n \in 0..MaxArg : Call(Op("consume_noshift", <<>>, 0, 0, n), consume_noshift(self, n))
CallReset == Call(Op("reset", <<>>, 0, 0, 0), reset(self))
CallShift == Call(Op("shift", <<>>, 0, 0, 0), shift(self))
CallDeleteSlice ==
    \E offset \in 0..MaxArg, len \in 0..MaxArg :
        Call(Op("delete_slice", <<>>, offset, len, 0), delete_slice(self, offset, len))
CallInsertSlice ==
    \E d \in Slices(MaxData), offset \in 0..MaxArg :
        Call(Op("insert_slice", d, offset, 0, 0), insert_slice(self, d, offset))
CallReplaceSlice ==
    \E d \in Slices(MaxData), offset \in 0..MaxArg, len \in 0..MaxArg :
        Call(Op("replace_slice", d, offset, len, 0), replace_slice(self, d, offset, len))
CallRead == \E n \in 0..MaxData : Call(Op("read", <<>>, 0, 0, n), read(self, n))
CallWrite == \E d \in Slices(MaxData) : Call(Op("write", d, 0, 0, 0), write(self, d))

Next ==
    \/ CallGrow
    \/ CallFill
    \/ CallConsume
    \/ CallConsumeNoshift
    \/ CallReset
    \/ CallShift
    \/ CallDeleteSlice
    \/ CallInsertSlice
    \/ CallReplaceSlice
    \/ CallRead
    \/ CallWrite
    \/ Return

Spec == Init /\ [][Next]_vars

\* ------------------------------------------------- stream use of the buffer
\* A producer and a consumer use an initially empty buffer through write,
\* read, shift and grow only; every byte write accepts and every byte read
\* delivers is logged.
FifoInit ==
    /\ debug_assertions \in BOOLEAN
    /\ \E c \in 0..MaxSize : New(Op("with_capacity", <<>>, 0, 0, c), with_capacity(c))

\* one call: the whole method runs; w are the bytes it accepted, r the bytes
\* it delivered
FifoCall(o, res, w, r) ==
    /\ ret.kind # "panic"
    /\ Len(written) + Len(w) <= MaxHistory
    /\ op' = o
    /\ old' = self
    /\ self' = res.b
    /\ ret' = res.ret
    /\ written' = written \o w
    /\ delivered' = delivered \o r
    /\ UNCHANGED debug_assertions

FifoWrite ==
    \E d \in Slices(MaxData) :
        LET res == write(self, d)
        IN  FifoCall(Op("write", d, 0, 0, 0), res, SubSeq(d, 1, res.ret.val), <<>>)
FifoRead ==
    \E n \in 0..MaxData :
        LET res == read(self, n)
        IN  FifoCall(Op("read", <<>>, 0, 0, n), res, <<>>, res.ret.out)
FifoShift == FifoCall(Op("shift", <<>>, 0, 0, 0), shift(self), <<>>, <<>>)
FifoGrow ==
    \E n \in 0..MaxSize + 1 :
        FifoCall(Op("grow", <<>>, 0, 0, n), grow(self, n), <<>>, <<>>)

FifoNext ==
    \/ FifoWrite
    \/ FifoRead
    \/ FifoShift
    \/ FifoGrow

SpecFifo == FifoInit /\ [][FifoNext]_vars

\* ---------------------------------------------------------------- claims
\* the data view before and after the recorded call
OldView == data(old)
NewView == data(self)
\* v[from..to], 0-based and half open
Part(v, from, to) == SubSeq(v, from + 1, to)

\* C1: after any call that does not abort, 0 <= start <= end <= capacity(),
\* available_data() + start == end, and
\* available_data() + available_space() == capacity() - start.
C1_CursorInvariant ==
    ret.kind # "panic" =>
        /\ 0 <= self.start
        /\ self.start <= self.end
        /\ self.end <= capacity(self)
        /\ available_data(self) + self.start = self.end
        /\ available_data(self) + available_space(self) = capacity(self) - self.start

\* a consume after which a dead prefix, pending data and free space coexist
C1_Witness ==
    /\ op.name = "consume"
    /\ ret.kind = "usize"
    /\ 0 < self.start
    /\ self.start < self.end
    /\ self.end < capacity(self)

\* C2: fill(n) is performed exactly when n <= available_space() and then only
\* end moves, by n; consume(n) (and consume_noshift(n)) is performed exactly
\* when n <= available_data() and then only start moves, by n; every other
\* call panics with the buffer untouched.
C2_FillConsume ==
    /\ op.name = "fill" =>
        IF op.count <= available_space(old)
        THEN ret = Usize(op.count) /\ self = [old EXCEPT !.end = old.end + op.count]
        ELSE ret = Panic /\ self = old
    /\ op.name \in {"consume", "consume_noshift"} =>
        IF op.count <= available_data(old)
        THEN ret = Usize(op.count) /\ self = [old EXCEPT !.start = old.start + op.count]
        ELSE ret = Panic /\ self = old

\* a consume of everything that is pending, behind a dead prefix
C2_Witness ==
    /\ op.name = "consume"
    /\ op.count > 0
    /\ op.count = available_data(old)
    /\ old.start > 0
    /\ ret = Usize(op.count)
    /\ self.buf = old.buf

\* C3: insert_slice on a buffer that cannot hold the result even after
\* compaction returns None and leaves the buffer unmodified.
C3_InsertNoRoomIsNone ==
    (/\ op.name = "insert_slice"
     /\ available_data(old) + Len(op.data) > capacity(old))
    => (ret = None /\ self = old)

\* C4: an insert that fits only after reclaiming the dead prefix compacts
\* and is performed: Some(old available_data + data.len()), position() 0,
\* data view old[0..offset] ++ data ++ old[offset..].
C4_InsertCompacts ==
    (/\ op.name = "insert_slice"
     /\ op.offset < available_data(old)
     /\ old.end + Len(op.data) > capacity(old)
     /\ available_data(old) + Len(op.data) <= capacity(old))
    => /\ ret = Some(available_data(old) + Len(op.data))
       /\ position(self) = 0
       /\ data_ok(self)
       /\ NewView = Part(OldView, 0, op.offset) \o op.data
                        \o Part(OldView, op.offset, Len(OldView))

\* C5: replace_slice with len > data.len() is performed whenever
\* offset + len <= available_data(), and returns
\* Some(old available_data - (len - data.len())).
C5_ReplaceShrinks ==
    (/\ op.name = "replace_slice"
     /\ op.len > Len(op.data)
     /\ op.offset + op.len <= available_data(old))
    => ret = Some(available_data(old) - (op.len - Len(op.data)))

\* C6: replace_slice either returns Some(new available_data) or returns None
\* with the buffer unmodified; it never aborts.
C6_ReplaceNeverAborts ==
    op.name = "replace_slice" =>
        \/ ret = Some(available_data(self))
        \/ ret = None /\ self = old

\* C7: whenever replace_slice(data, offset, len) returns Some(n) on a buffer
\* whose data view is addressable, the data view afterwards is
\* old[0..offset] ++ data ++ old[offset+len..] and
\* n == old available_data - len + data.len().
C7_ReplaceResult ==
    (/\ op.name = "replace_slice"
     /\ ret.kind = "Some"
     /\ data_ok(old))
    => /\ data_ok(self)
       /\ NewView = Part(OldView, 0, op.offset) \o op.data
                        \o Part(OldView, op.offset + op.len, Len(OldView))
       /\ ret.val = available_data(old) - op.len + Len(op.data)

\* a growing replace behind a dead prefix: one byte overwritten, one inserted
C7_Witness ==
    /\ op.name = "replace_slice"
    /\ ret.kind = "Some"
    /\ data_ok(old)
    /\ old.start > 0
    /\ op.len = 1
    /\ op.data = <<1, 0>>
    /\ op.offset + op.len < available_data(old)

\* C8: delete_slice returns None exactly when
\* offset + len >= available_data(), and then the buffer is unchanged; with
\* the data view addressable, every smaller offset + len is accepted.
C8_DeleteRejects ==
    op.name = "delete_slice" =>
        /\ (ret = None) <=> (op.offset + op.len >= available_data(old))
        /\ ret = None => self = old
        /\ (data_ok(old) /\ op.offset + op.len < available_data(old))
               => ret.kind = "Some"

\* a delete through the final byte, rejected
C8_Witness ==
    /\ op.name = "delete_slice"
    /\ op.len > 0
    /\ op.offset + op.len = available_data(old)
    /\ ret = None
    /\ self = old

\* C9: whenever delete_slice(offset, len) returns Some(n), the data view is
\* old[0..offset] ++ old[offset+len..], end has decreased by len, start and
\* capacity are unchanged, and n == old available_data - len.
C9_DeleteResult ==
    (op.name = "delete_slice" /\ ret.kind = "Some")
    => /\ data_ok(old)
       /\ data_ok(self)
       /\ NewView = Part(OldView, 0, op.offset)
                        \o Part(OldView, op.offset + op.len, Len(OldView))
       /\ self.end = old.end - op.len
       /\ self.start = old.start
       /\ capacity(self) = capacity(old)
       /\ ret.val = available_data(old) - op.len

\* a delete whose surviving tail overlaps the deleted range
C9_Witness ==
    /\ op.name = "delete_slice"
    /\ ret.kind = "Some"
    /\ op.len = 1
    /\ available_data(old) - (op.offset + op.len) >= 2
    /\ OldView # NewView \o <<0>>
    /\ OldView # NewView \o <<1>>

\* C10: whenever insert_slice(data, offset) returns Some(n), the data view
\* is old[0..offset] ++ data ++ old[offset..] and
\* n == old available_data + data.len().
C10_InsertResult ==
    (op.name = "insert_slice" /\ ret.kind = "Some")
    => /\ data_ok(old)
       /\ data_ok(self)
       /\ NewView = Part(OldView, 0, op.offset) \o op.data
                        \o Part(OldView, op.offset, Len(OldView))
       /\ ret.val = available_data(old) + Len(op.data)

\* an insert whose moved tail overlaps its destination
C10_Witness ==
    /\ op.name = "insert_slice"
    /\ ret.kind = "Some"
    /\ Len(op.data) = 1
    /\ available_data(old) - op.offset >= 2
    /\ OldView[op.offset + 1] # OldView[op.offset + 2]

\* the bytes of storage s from index from on (0-based)
From(s, from) == SubSeq(s, from + 1, Len(s))

\* C11: grow(new_size) with new_size > capacity() returns true and leaves
\* capacity() == new_size exactly, start, end and the data view unchanged
\* and the added bytes zero; with new_size <= capacity() it returns false
\* and changes nothing.
C11_GrowExact ==
    op.name = "grow" =>
        IF op.count > capacity(old)
        THEN /\ ret = Bool(TRUE)
             /\ capacity(self) = op.count
             /\ self.start = old.start
             /\ self.end = old.end
             /\ SubSeq(self.buf, 1, Len(old.buf)) = old.buf
             /\ From(self.buf, Len(old.buf)) = Zeroes(Len(self.buf) - Len(old.buf))
        ELSE ret = Bool(FALSE) /\ self = old

\* C12: after shift() has returned, position() == 0, available_data() is
\* unchanged, the data view holds the same bytes in the same order, and
\* available_space() == capacity() - available_data(); if start was
\* already 0 nothing has changed.
C12_ShiftResult ==
    (op.name = "shift" /\ ret.kind # "panic")
    => /\ position(self) = 0
       /\ available_data(self) = available_data(old)
       /\ available_space(self) = capacity(self) - available_data(self)
       /\ capacity(self) = capacity(old)
       /\ old.start = 0 => self = old
       /\ old.start > 0 => /\ data_ok(old)
                           /\ data_ok(self)
                           /\ NewView = OldView

\* a shift whose source and destination overlap (start < available_data())
\* and whose bytes differ, so that a wrong move would show
C12_Witness ==
    /\ op.name = "shift"
    /\ ret = Unit
    /\ old.start > 0
    /\ old.start < available_data(old)
    /\ data_ok(old)
    /\ \E i \in 1..Len(OldView) - 1 : OldView[i] # OldView[i + 1]

\* the first n bytes of the old data region (as far as the storage holds
\* them) are still where they were
KeptInPlace(n) ==
    \A i \in (old.start + 1)..Min(old.start + n, Len(old.buf)) :
        self.buf[i] = old.buf[i]

\* start has not moved back and the data region has not been relocated
NotCompacted(n) == self.start >= old.start /\ KeptInPlace(n)

\* C13 as stated: fill, consume, consume_noshift, grow, delete_slice,
\* replace_slice, read and write never decrease start and never move the
\* data region to a different storage offset.
C13_OnlyThreeCompact ==
    /\ op.name \in {"fill", "consume", "consume_noshift", "grow", "read", "write"}
           => NotCompacted(available_data(old))
    /\ op.name \in {"delete_slice", "replace_slice"}
           => NotCompacted(Min(op.offset, available_data(old)))

\* C13 amended: fill, consume, consume_noshift, grow, delete_slice, read and
\* write never decrease start and never move the data region; replace_slice
\* does so only with len < data.len(), when the insert_slice it calls for
\* the excess bytes has to shift, and then start is 0.
C13_NoImplicitCompaction ==
    /\ op.name \in {"fill", "consume", "consume_noshift", "grow", "read", "write"}
           => NotCompacted(available_data(old))
    /\ op.name = "delete_slice"
           => NotCompacted(Min(op.offset, available_data(old)))
    /\ op.name = "replace_slice"
           => \/ NotCompacted(Min(op.offset, available_data(old)))
              \/ /\ op.len < Len(op.data)
                 /\ old.start > 0
                 /\ insert_needs_shift(old, SubSeq(op.data, op.len + 1, Len(op.data)))
                 /\ self.start = 0

\* a growing replace_slice that was performed and compacted on the way
C13_Witness ==
    /\ op.name = "replace_slice"
    /\ ret.kind = "Some"
    /\ old.start > 0
    /\ self.start = 0
    /\ op.len < Len(op.data)

\* C14: write, in any reachable state, copies exactly
\* min(available_space(), source length) bytes of the source prefix into the
\* space region, increases end by that count and returns it, never fails,
\* and leaves start and the existing data bytes unchanged.
C14_WriteExact ==
    op.name = "write" =>
        LET n == Min(available_space(old), Len(op.data))
        IN  /\ ret = IoOk(n, <<>>)
            /\ self.end = old.end + n
            /\ self.start = old.start
            /\ capacity(self) = capacity(old)
            /\ data_ok(self)
            /\ NewView = OldView \o SubSeq(op.data, 1, n)
            /\ SubSeq(self.buf, 1, old.start) = SubSeq(old.buf, 1, old.start)

C17_ShiftIdempotent ==
    ret.kind # "panic" =>
        LET once == shift(self)
        IN  once.ret # Panic => shift(once.b) = Outcome(once.b, Unit)

\* a shift that has just moved pending bytes to the front
C17_Witness ==
    /\ op.name = "shift"
    /\ ret = Unit
    /\ old.start > 0
    /\ available_data(old) > 0
    /\ self.buf # old.buf

\* C18: replace_slice returns None without mutating the buffer whenever
\* offset + max(len, data.len()) > available_data(); with len < data.len()
\* the check is on offset + data.len().
C18_ReplaceRejects ==
    (/\ op.name = "replace_slice"
     /\ op.offset + Max(op.len, Len(op.data)) > available_data(old))
    => (ret = None /\ self = old)

\* a growing replacement whose window lies inside the data region, rejected
\* because offset + data.len() does not
C18_Witness ==
    /\ op.name = "replace_slice"
    /\ op.len < Len(op.data)
    /\ op.len > 0
    /\ op.offset + op.len <= available_data(old)
    /\ op.offset + Len(op.data) > available_data(old)
    /\ available_space(old) > 0
    /\ ret = None
    /\ self = old

\* C19: insert_slice is never spuriously rejected: whenever
\* offset < available_data() and available_data() + data.len() <= capacity(),
\* it is performed and returns Some.
C19_InsertNeverSpurious ==
    (/\ op.name = "insert_slice"
     /\ op.offset < available_data(old)
     /\ available_data(old) + Len(op.data) <= capacity(old))
    => ret.kind = "Some"

\* C20: in every reachable state the space view has exactly
\* available_space() bytes and end does not exceed the length of the
\* storage, so that data() after an accepted fill stays inside the storage.
C20_SpaceMatchesStorage ==
    ret.kind # "panic" =>
        /\ self.end <= Len(self.buf)
        /\ space_ok(self)
        /\ Len(space(self)) = available_space(self)
        /\ data_ok(self)

\* the bytes read has delivered are a prefix of the bytes write has
\* accepted, and what is still pending is exactly the rest
FifoPrefix ==
    /\ Len(delivered) <= Len(written)
    /\ SubSeq(written, 1, Len(delivered)) = delivered
    /\ data_ok(self)
    /\ written = delivered \o NewView

\* writing available_space() bytes to the buffer as it stands and reading
\* everything back yields the pending bytes followed by exactly those bytes
FifoRoundTrip ==
    \A d \in [1..available_space(self) -> Byte] :
        LET w == write(self, d)
            r == read(w.b, available_data(w.b))
        IN  /\ w.ret = IoOk(Len(d), <<>>)
            /\ r.ret = IoOk(available_data(self) + Len(d), NewView \o d)

\* C16: starting from an empty buffer, under any interleaving of write,
\* read, shift and grow, the bytes delivered by read are a prefix of the
\* bytes accepted by write (same bytes, same order); in particular writing
\* available_space() bytes and then reading them back yields exactly those
\* bytes.
C16_Fifo ==
    /\ FifoPrefix
    /\ FifoRoundTrip
====
